---------------------------- MODULE Spec2Model ----------------------------
(***************************************************************************)
(* The petition-analysis dashboard: the text helpers and the guidance      *)
(* table of src/utils.py and the "Analyze Case" handler of src/app.py      *)
(* (src/notebook.py holds the same handler with a fixed diagram).          *)
(*                                                                         *)
(* A Python str is a sequence of characters, one element per character.    *)
(* An ASCII character is the one-character string; any other character is  *)
(* written by its code point ("U+2019").                                   *)
(***************************************************************************)
EXTENDS Integers, Sequences, FiniteSets

VARIABLES
    \* preprocess_text applied to an input, and to its own result
    text, once, twice, textDone,
    \* get_guidance and extract_action_steps applied to a claim label
    claimLabel, guidance, steps, guidanceDone,
    \* the fitted models of utils.py:10-17, loaded once at import
    claim_model, score_model, status_model,
    \* the Live Case Assistant page: the two text areas, whether the current
    \* script run is the one the button started, st.session_state, the calls
    \* of the current run, what it rendered, and every predict_status call
    \* of the session
    petition, response, clicked, session_state, calls, ui, statusLog,
    \* the Dataset Case Insights page: the header and the records of the
    \* loaded file, whether the page has run, what it rendered, the columns
    \* it reported missing and the records that passed the filters
    columns, rows, dsDone, dsUi, missing_cols, df_filtered

textVars == <<text, once, twice, textDone>>
guidanceVars == <<claimLabel, guidance, steps, guidanceDone>>
modelVars == <<claim_model, score_model, status_model>>
pageVars == <<petition, response, clicked, session_state, calls, ui, statusLog>>
datasetVars == <<columns, rows, dsDone, dsUi, missing_cols, df_filtered>>
vars == <<textVars, guidanceVars, modelVars, pageVars, datasetVars>>

---------------------------------------------------------------------------
(* Bounds *)

\* longest input given to preprocess_text
MaxLen == 4
\* most pieces a claim label is put together from
MaxWords == 3
\* most records the session history grows to
MaxCases == 2
\* most records of the dataset file
MaxRows == 2
\* largest score of the dataset file, counted in halves
MaxHalves == 3

---------------------------------------------------------------------------
(* Python's str operations, as far as the program uses them *)

UpperLetters == <<"A","B","C","D","E","F","G","H","I","J","K","L","M",
                  "N","O","P","Q","R","S","T","U","V","W","X","Y","Z">>
LowerLetters == <<"a","b","c","d","e","f","g","h","i","j","k","l","m",
                  "n","o","p","q","r","s","t","u","v","w","x","y","z">>
Digits == {"0","1","2","3","4","5","6","7","8","9"}
Range(s) == {s[i] : i \in DOMAIN s}

\* str.isspace of one character
Whitespace == {" ", "\t", "\n", "\r", "\f"}

LowerChar(c) ==
    IF \E i \in DOMAIN UpperLetters : UpperLetters[i] = c
    THEN LowerLetters[CHOOSE i \in DOMAIN UpperLetters : UpperLetters[i] = c]
    ELSE c

\* str.lower()
Lower(s) == [i \in DOMAIN s |-> LowerChar(s[i])]

\* `sub in s`
Contains(s, sub) ==
    \E i \in 0..Len(s) :
        /\ i + Len(sub) <= Len(s)
        /\ \A k \in 1..Len(sub) : s[i + k] = sub[k]

\* str.strip(chars): the text between the first and the last character that
\* is not one of chars; str.strip() is Strip(s, Whitespace)
Strip(s, chars) ==
    IF \A i \in DOMAIN s : s[i] \in chars THEN <<>>
    ELSE LET first == CHOOSE i \in DOMAIN s :
                          s[i] \notin chars /\ \A j \in 1..(i - 1) : s[j] \in chars
             last == CHOOSE i \in DOMAIN s :
                         s[i] \notin chars /\ \A j \in (i + 1)..Len(s) : s[j] \in chars
         IN  SubSeq(s, first, last)

\* str.split(sep) for a one-character separator: the pieces between the
\* separators, empty pieces kept
Split(s, sep) ==
    LET at == {i \in DOMAIN s : s[i] = sep}
        \* where the k-th separator stands; 0 and Len(s) + 1 bound the text
        pos(k) == IF k = 0 THEN 0
                  ELSE IF k > Cardinality(at) THEN Len(s) + 1
                  ELSE CHOOSE i \in at : Cardinality({j \in at : j <= i}) = k
    IN  [k \in 1..(Cardinality(at) + 1) |-> SubSeq(s, pos(k - 1) + 1, pos(k) - 1)]

---------------------------------------------------------------------------
(* utils.py: preprocess_text *)

\* The class [^a-zA-Z0-9\\s] of the raw-string pattern: in a class, \\ is the
\* backslash and s is the letter s, so the characters the first re.sub keeps
\* are the ASCII letters, the digits and the backslash.
KeptByFirstPattern(c) ==
    c \in Range(LowerLetters) \cup Range(UpperLetters) \cup Digits \cup {"\\"}

\* re.sub(r'[^a-zA-Z0-9\\s]', '', text)
RemoveOthers(s) == SelectSeq(s, KeptByFirstPattern)

\* how many letters s stand at the head of t
RECURSIVE RunOfS(_)
RunOfS(t) == IF t # <<>> /\ Head(t) = "s" THEN 1 + RunOfS(Tail(t)) ELSE 0

\* re.sub(r'\\s+', ' ', text): the raw-string pattern is a backslash followed
\* by one or more letters s; each leftmost, longest match becomes one space.
RECURSIVE CollapseMatches(_)
CollapseMatches(s) ==
    IF s = <<>> THEN <<>>
    ELSE IF Head(s) = "\\" /\ RunOfS(Tail(s)) > 0
         THEN <<" ">> \o CollapseMatches(SubSeq(s, 2 + RunOfS(Tail(s)), Len(s)))
         ELSE <<Head(s)>> \o CollapseMatches(Tail(s))

preprocess_text(t) == Strip(CollapseMatches(RemoveOthers(Lower(t))), Whitespace)

---------------------------------------------------------------------------
(* utils.py: get_guidance, and app.py: extract_action_steps *)

KwMissing == <<"m","i","s","s","i","n","g">>
KwFraud == <<"f","r","a","u","d">>
KwCyber == <<"c","y","b","e","r">>
KwLand == <<"l","a","n","d">>
KwDomestic == <<"d","o","m","e","s","t","i","c">>

\* utils.py:50-54, the string literal's five adjacent pieces, one character per element.
MissingGuidance ==
    <<"-"," ","E","x","p","a","n","d"," ","C","a","l","l"," ","D","e","t","a","i","l"," ","R","e","c","o","r","d","s"," ","(","C","D","R",")"," ","t","o"," ","i","n","c","l","u","d","e"," ","p","a","s","t"," ","w","e","e","k",".","\n">> \o
    <<"-"," ","V","e","r","i","f","y"," ","f","i","n","a","n","c","i","a","l"," ","t","r","a","n","s","a","c","t","i","o","n","s"," ","o","r"," ","A","T","M"," ","u","s","a","g","e",".","\n">> \o
    <<"-"," ","R","e","t","r","i","e","v","e"," ","l","a","s","t"," ","s","e","e","n"," ","l","o","c","a","t","i","o","n"," ","f","r","o","m"," ","t","e","l","e","c","o","m"," ","s","e","r","v","i","c","e"," ","p","r","o","v","i","d","e","r",".","\n">> \o
    <<"-"," ","I","n","v","o","l","v","e"," ","c","y","b","e","r"," ","c","e","l","l"," ","f","o","r"," ","s","o","c","i","a","l"," ","m","e","d","i","a"," ","t","r","a","c","k","i","n","g",".","\n">> \o
    <<"-"," ","C","o","o","r","d","i","n","a","t","e"," ","w","i","t","h"," ","n","e","a","r","b","y"," ","d","i","s","t","r","i","c","t","s"," ","a","n","d"," ","s","h","a","r","e"," ","d","e","t","a","i","l","s",".">>

\* utils.py:58-62, the string literal's five adjacent pieces, one character per element.
FraudGuidance ==
    <<"-"," ","R","e","q","u","e","s","t"," ","b","a","n","k"," ","t","r","a","n","s","a","c","t","i","o","n"," ","l","o","g","s"," ","a","n","d"," ","f","r","e","e","z","e"," ","s","u","s","p","e","c","t","e","d"," ","a","c","c","o","u","n","t","s",".","\n">> \o
    <<"-"," ","T","r","a","c","e"," ","c","a","l","l","e","r","'","s"," ","l","o","c","a","t","i","o","n"," ","u","s","i","n","g"," ","C","D","R"," ","a","n","d"," ","I","M","E","I",".","\n">> \o
    <<"-"," ","C","o","n","t","a","c","t"," ","c","y","b","e","r"," ","c","r","i","m","e"," ","u","n","i","t"," ","f","o","r"," ","d","i","g","i","t","a","l"," ","t","r","a","i","l"," ","a","n","a","l","y","s","i","s",".","\n">> \o
    <<"-"," ","V","e","r","i","f","y"," ","I","P"," ","l","o","g","s"," ","f","r","o","m"," ","t","e","l","e","c","o","m"," ","o","p","e","r","a","t","o","r",".","\n">> \o
    <<"-"," ","C","h","e","c","k"," ","f","o","r"," ","p","r","e","v","i","o","u","s"," ","c","o","m","p","l","a","i","n","t","s"," ","o","n"," ","t","h","e"," ","s","a","m","e"," ","n","u","m","b","e","r","/","a","c","c","o","u","n","t",".">>

\* utils.py:66-70, the string literal's five adjacent pieces, one character per element.
LandGuidance ==
    <<"-"," ","C","r","o","s","s","-","c","h","e","c","k"," ","l","a","n","d"," ","r","e","g","i","s","t","r","y"," ","a","n","d"," ","o","w","n","e","r","s","h","i","p"," ","r","e","c","o","r","d","s",".","\n">> \o
    <<"-"," ","C","o","n","t","a","c","t"," ","P","a","t","w","a","r","i"," ","a","n","d"," ","r","e","v","e","n","u","e"," ","d","e","p","a","r","t","m","e","n","t"," ","f","o","r"," ","d","e","m","a","r","c","a","t","i","o","n",".","\n">> \o
    <<"-"," ","P","r","e","v","e","n","t"," ","e","s","c","a","l","a","t","i","o","n"," ","b","y"," ","e","n","f","o","r","c","i","n","g"," ","t","e","m","p","o","r","a","r","y"," ","i","n","j","u","n","c","t","i","o","n",".","\n">> \o
    <<"-"," ","E","n","s","u","r","e"," ","b","o","t","h"," ","p","a","r","t","i","e","s"," ","a","r","e"," ","l","e","g","a","l","l","y"," ","n","o","t","i","f","i","e","d",".","\n">> \o
    <<"-"," ","R","e","c","o","m","m","e","n","d"," ","c","i","v","i","l"," ","c","o","u","r","t"," ","p","r","o","c","e","e","d","i","n","g","s"," ","i","f"," ","d","o","c","u","m","e","n","t","s"," ","a","r","e"," ","d","i","s","p","u","t","e","d",".">>

\* utils.py:74-78, the string literal's five adjacent pieces, one character per element.
DomesticGuidance ==
    <<"-"," ","R","e","c","o","r","d"," ","v","i","c","t","i","m"," ","a","n","d"," ","w","i","t","n","e","s","s"," ","s","t","a","t","e","m","e","n","t","s"," ","s","e","n","s","i","t","i","v","e","l","y",".","\n">> \o
    <<"-"," ","C","o","n","d","u","c","t"," ","a"," ","m","e","d","i","c","a","l"," ","e","x","a","m","i","n","a","t","i","o","n"," ","w","i","t","h"," ","p","r","o","p","e","r"," ","d","o","c","u","m","e","n","t","a","t","i","o","n",".","\n">> \o
    <<"-"," ","E","n","s","u","r","e"," ","v","i","c","t","i","m"," ","s","a","f","e","t","y"," ","t","h","r","o","u","g","h"," ","i","m","m","e","d","i","a","t","e"," ","p","r","o","t","e","c","t","i","o","n"," ","m","e","a","s","u","r","e","s",".","\n">> \o
    <<"-"," ","I","n","v","o","l","v","e"," ","w","o","m","e","n","U+00E2","U+20AC","U+2122","s"," ","h","e","l","p"," ","c","e","l","l"," ","i","f"," ","r","e","q","u","i","r","e","d",".","\n">> \o
    <<"-"," ","R","e","g","i","s","t","e","r"," ","F","I","R"," ","u","n","d","e","r"," ","r","e","l","e","v","a","n","t"," ","I","P","C"," ","a","n","d"," ","D","o","m","e","s","t","i","c"," ","V","i","o","l","e","n","c","e"," ","A","c","t",".">>

\* utils.py:82-86, the string literal's five adjacent pieces, one character per element.
DefaultGuidance ==
    <<"-"," ","R","e","v","i","e","w"," ","c","o","m","p","l","a","i","n","t"," ","c","o","n","t","e","n","t"," ","t","h","o","r","o","u","g","h","l","y",".","\n">> \o
    <<"-"," ","E","n","s","u","r","e"," ","F","I","R"," ","h","a","s"," ","b","e","e","n"," ","r","e","g","i","s","t","e","r","e","d"," ","i","f"," ","n","e","e","d","e","d",".","\n">> \o
    <<"-"," ","C","o","n","t","a","c","t"," ","r","e","l","e","v","a","n","t"," ","u","n","i","t","s"," ","f","o","r"," ","s","u","p","p","o","r","t"," ","(","e",".","g",".",","," ","c","y","b","e","r"," ","c","e","l","l",","," ","l","e","g","a","l",")",".","\n">> \o
    <<"-"," ","U","p","d","a","t","e"," ","c","o","m","p","l","a","i","n","a","n","t"," ","a","b","o","u","t"," ","c","u","r","r","e","n","t"," ","s","t","a","t","u","s"," ","r","e","g","u","l","a","r","l","y",".","\n">> \o
    <<"-"," ","S","u","b","m","i","t"," ","p","r","o","g","r","e","s","s"," ","r","e","p","o","r","t"," ","t","o"," ","s","u","p","e","r","v","i","s","i","n","g"," ","o","f","f","i","c","e","r",".">>
\* Faulty variant: the land rule is tried before the fraud/cyber rule.
get_guidance_land_first(complaint, claim, resp) ==
    LET c == Lower(claim) IN
    IF Contains(c, KwMissing) THEN MissingGuidance
    ELSE IF Contains(c, KwLand) THEN LandGuidance
    ELSE IF Contains(c, KwFraud) \/ Contains(c, KwCyber) THEN FraudGuidance
    ELSE IF Contains(c, KwDomestic) THEN DomesticGuidance
    ELSE DefaultGuidance

\* Faulty variant: no else branch, the guidance stays the empty string.
get_guidance_no_default(complaint, claim, resp) ==
    LET c == Lower(claim) IN
    IF Contains(c, KwMissing) THEN MissingGuidance
    ELSE IF Contains(c, KwFraud) \/ Contains(c, KwCyber) THEN FraudGuidance
    ELSE IF Contains(c, KwLand) THEN LandGuidance
    ELSE IF Contains(c, KwDomestic) THEN DomesticGuidance
    ELSE <<>>

\* The complaint and the response are parameters the body never reads.
get_guidance(complaint, claim, resp) ==
    LET c == Lower(claim) IN
    IF Contains(c, KwMissing) THEN MissingGuidance
    ELSE IF Contains(c, KwFraud) \/ Contains(c, KwCyber) THEN FraudGuidance
    ELSE IF Contains(c, KwLand) THEN LandGuidance
    ELSE IF Contains(c, KwDomestic) THEN DomesticGuidance
    ELSE DefaultGuidance

\* the characters of line.strip("U+1F4CC ")
PinAndSpace == {"U+1F4CC", " "}

NotBlank(line) == Strip(line, Whitespace) # <<>>

\* [line.strip(pin).strip() for line in text.strip().split("\n") if line.strip()]
extract_action_steps(guidance_text) ==
    LET lines == SelectSeq(Split(Strip(guidance_text, Whitespace), "\n"), NotBlank)
    IN  [i \in DOMAIN lines |-> Strip(Strip(lines[i], PinAndSpace), Whitespace)]

---------------------------------------------------------------------------
(* The inputs the text functions are tried on *)

\* characters of the inputs to preprocess_text: letters of both cases, the
\* letter s, a digit, the backslash, a space and a punctuation mark
TextAlphabet == {"A", "b", "s", "1", "\\", " ", "!"}

Texts == UNION {[1..n -> TextAlphabet] : n \in 0..MaxLen}

\* pieces claim labels are put together from: the five keywords in mixed
\* case, a word that is no keyword, and a space
LabelWords ==
    { <<"M","i","s","s","i","n","g">>, <<"F","R","A","U","D">>,
      <<"C","y","b","e","r">>, <<"L","A","N","D">>,
      <<"d","o","m","e","s","t","i","c">>, <<"t","h","e","f","t">>, <<" ">> }

RECURSIVE Concat(_)
Concat(ws) == IF ws = <<>> THEN <<>> ELSE Head(ws) \o Concat(Tail(ws))

Labels == {Concat(ws) : ws \in UNION {[1..n -> LabelWords] : n \in 0..MaxWords}}

---------------------------------------------------------------------------
(* Idle values: what a specification leaves untouched *)

TextIdle == text = <<>> /\ once = <<>> /\ twice = <<>> /\ textDone = FALSE
GuidanceIdle ==
    claimLabel = <<>> /\ guidance = <<>> /\ steps = <<>> /\ guidanceDone = FALSE
DatasetIdle ==
    /\ columns = <<>> /\ rows = <<>> /\ dsDone = FALSE
    /\ dsUi = <<>> /\ missing_cols = {} /\ df_filtered = <<>>

---------------------------------------------------------------------------
(* utils.py: the three predictors over the fitted models *)

\* What a fitted TfidfVectorizer keeps of a text: which terms of its
\* vocabulary occur in the lowercased text.  The vocabularies stand for the
\* ones stored in the *_vectorizer.pkl files.
Transform(vocabulary, t) == {term \in vocabulary : Contains(Lower(t), term)}

claim_vectorizer == {KwLand}
score_vectorizer == {<<"f","i","r">>}
status_vectorizer == {KwMissing}

\* the classes of claim_model and of status_model, and values of score_model
ClaimLabels ==
    { <<"L","a","n","d"," ","D","i","s","p","u","t","e">>,
      <<"M","i","s","s","i","n","g"," ","P","e","r","s","o","n">> }
Scores == {3, 8}
Statuses == { <<"C","l","o","s","e","d">>, <<"R","u","n","n","i","n","g">> }

\* every fitted model over those features: the content of the .pkl files is
\* an input of the program
ClaimModels == [SUBSET claim_vectorizer -> ClaimLabels]
ScoreModels == [SUBSET score_vectorizer -> Scores]
StatusModels == [(SUBSET status_vectorizer) \X Scores -> Statuses]

predict_claim_type(t) == claim_model[Transform(claim_vectorizer, t)]

predict_score(resp) == score_model[Transform(score_vectorizer, resp)]

\* f"{complaint} {claim} {response}"
Combined(complaint, claim, resp) == complaint \o <<" ">> \o claim \o <<" ">> \o resp

\* Faulty variant: a petition already in the session's history is reported
\* closed, so the result depends on the history.
predict_status_seen(complaint, claim, resp, score) ==
    IF /\ "cases" \in DOMAIN session_state
       /\ \E i \in DOMAIN session_state.cases : session_state.cases[i].Petition = complaint
    THEN <<"C","l","o","s","e","d">>
    ELSE status_model[<<Transform(status_vectorizer, Combined(complaint, claim, resp)), score>>]

\* np.hstack((vec, [[score]])) is the pair of the text features and the score
predict_status(complaint, claim, resp, score) ==
    status_model[<<Transform(status_vectorizer, Combined(complaint, claim, resp)), score>>]

---------------------------------------------------------------------------
(* app.py: the Live Case Assistant page *)

\* Faulty variant: only the petition is validated.
InputMissingPetitionOnly(p, r) == p = <<>>

\* `not petition or not response`: the empty string is the only false str
InputMissing(p, r) == p = <<>> \/ r = <<>>

\* Faulty variant: the comparison without .lower().
IsClosedExact(status) == status = <<"c","l","o","s","e","d">>

\* status.lower() == 'closed'
IsClosed(status) == Lower(status) = <<"c","l","o","s","e","d">>

\* Faulty variant: the history is set to the empty list on every run.
EnsureCasesReset(ss) == [cases |-> <<>>]

\* if 'cases' not in st.session_state: st.session_state.cases = []
EnsureCases(ss) == IF "cases" \in DOMAIN ss THEN ss ELSE [cases |-> <<>>]

\* the session's history, empty while the key is not set
Cases(ss) == IF "cases" \in DOMAIN ss THEN ss.cases ELSE <<>>

Call(fn, args, result) == [fn |-> fn, args |-> args, result |-> result]

\* Faulty variant: the status classifier is given the score of the petition
\* text instead of the score predicted from the response.
PredictorCallsPetitionScore(p, r) ==
    LET claim == predict_claim_type(p)
        score == predict_score(r)
        status == predict_status(p, claim, r, predict_score(p))
    IN  << Call("predict_claim_type", <<p>>, claim),
           Call("predict_score", <<r>>, score),
           Call("predict_status", <<p, claim, r, predict_score(p)>>, status) >>

\* claim = predict_claim_type(petition); score = predict_score(response);
\* status = predict_status(petition, claim, response, score)
PredictorCalls(p, r) ==
    LET claim == predict_claim_type(p)
        score == predict_score(r)
        status == predict_status(p, claim, r, score)
    IN  << Call("predict_claim_type", <<p>>, claim),
           Call("predict_score", <<r>>, score),
           Call("predict_status", <<p, claim, r, score>>, status) >>

\* the dict appended to st.session_state.cases
CaseRecord(p, claim, r, score, status) ==
    [Petition |-> p, Claim |-> claim, Response |-> r, Score |-> score, Status |-> status]

\* plot_plan_of_action_graph: the diagram needs two steps or more
DiagramOf(stepList) == IF Len(stepList) < 2 THEN "info" ELSE "sankey"

\* the branch on the status: the calls it makes and what it renders
FollowUp(p, claim, r, status) ==
    IF IsClosed(status)
    THEN [calls |-> <<>>, ui |-> <<"success">>]
    ELSE LET guidance_text == get_guidance(p, claim, r) IN
         [calls |-> <<Call("get_guidance", <<p, claim, r>>, guidance_text)>>,
          ui |-> <<"warning", "plan", DiagramOf(extract_action_steps(guidance_text)), "caption">>]

\* the texts typed into the two text areas
Petitions ==
    { <<>>, <<"L","a","n","d"," ","r","o","w","!">>, <<"m","i","s","s","i","n","g">> }
Responses == { <<>>, <<"F","I","R"," ","f","i","l","e","d">> }

PageIdle ==
    /\ petition = <<>> /\ response = <<>> /\ clicked = FALSE
    /\ session_state = <<>> /\ calls = <<>> /\ ui = <<>> /\ statusLog = <<>>

ModelsLoaded ==
    /\ claim_model \in ClaimModels
    /\ score_model \in ScoreModels
    /\ status_model \in StatusModels

\* a script run the button did not start: a text area was edited
EditText ==
    \E p \in Petitions, r \in Responses :
        /\ petition' = p /\ response' = r
        /\ clicked' = FALSE
        /\ calls' = <<>> /\ ui' = <<>>
        /\ UNCHANGED <<session_state, statusLog, modelVars, textVars, guidanceVars, datasetVars>>

\* the rest of the run once the three predictions and the branch on the
\* status are made: the status line, the record appended to the history, the
\* follow-up and the dashboard
Conclude(made, after) ==
    /\ session_state' =
         [EnsureCases(session_state) EXCEPT
             !.cases = Append(@, CaseRecord(petition, made[1].result, response,
                                            made[2].result, made[3].result))]
    /\ calls' = made \o after.calls
    /\ ui' = <<"status">> \o after.ui \o <<"dashboard">>
    /\ statusLog' = Append(statusLog, made[3])

Analyzed(made) ==
    Conclude(made, FollowUp(petition, made[1].result, response, made[3].result))

\* the script run the "Analyze Case" button starts
AnalyzeCase ==
    /\ InputMissing(petition, response) \/ Len(statusLog) < MaxCases
    /\ clicked' = TRUE
    /\ UNCHANGED <<petition, response, modelVars, textVars, guidanceVars, datasetVars>>
    /\ IF InputMissing(petition, response)
       THEN /\ ui' = <<"error">>
            /\ calls' = <<>>
            /\ UNCHANGED <<session_state, statusLog>>
       ELSE Analyzed(PredictorCalls(petition, response))

ModelsIdle == claim_model = <<>> /\ score_model = <<>> /\ status_model = <<>>

---------------------------------------------------------------------------
(* The session of the Live Case Assistant page *)

Init == ModelsLoaded /\ PageIdle /\ TextIdle /\ GuidanceIdle /\ DatasetIdle

Next == EditText \/ AnalyzeCase

Spec == Init /\ [][Next]_vars

---------------------------------------------------------------------------
(* preprocess_text on every input of Texts *)

InitText ==
    /\ text \in Texts /\ once = <<>> /\ twice = <<>> /\ textDone = FALSE
    /\ GuidanceIdle /\ ModelsIdle /\ PageIdle /\ DatasetIdle

CallPreprocess ==
    /\ ~textDone
    /\ once' = preprocess_text(text)
    /\ twice' = preprocess_text(once')
    /\ textDone' = TRUE
    /\ UNCHANGED <<text, guidanceVars, modelVars, pageVars, datasetVars>>

NextText == CallPreprocess

SpecText == InitText /\ [][NextText]_vars

---------------------------------------------------------------------------
(* get_guidance and extract_action_steps on every label of Labels *)

InitGuidance ==
    /\ claimLabel \in Labels /\ guidance = <<>> /\ steps = <<>> /\ guidanceDone = FALSE
    /\ TextIdle /\ ModelsIdle /\ PageIdle /\ DatasetIdle

CallGuidance ==
    /\ ~guidanceDone
    /\ guidance' = get_guidance(<<>>, claimLabel, <<>>)
    /\ steps' = extract_action_steps(guidance')
    /\ guidanceDone' = TRUE
    /\ UNCHANGED <<claimLabel, textVars, modelVars, pageVars, datasetVars>>

NextGuidance == CallGuidance

SpecGuidance == InitGuidance /\ [][NextGuidance]_vars

---------------------------------------------------------------------------
(* app.py: the Dataset Case Insights page *)

\* the five column names of the dataset file and the names they are renamed to
complaint_text == <<"c","o","m","p","l","a","i","n","t","_","t","e","x","t">>
extracted_claims == <<"e","x","t","r","a","c","t","e","d","_","c","l","a","i","m","s">>
io_response == <<"i","o","_","r","e","s","p","o","n","s","e">>
response_score == <<"r","e","s","p","o","n","s","e","_","s","c","o","r","e">>
final_status == <<"f","i","n","a","l","_","s","t","a","t","u","s">>
ColPetition == <<"P","e","t","i","t","i","o","n">>
ColClaim == <<"C","l","a","i","m">>
ColResponse == <<"R","e","s","p","o","n","s","e">>
ColScore == <<"S","c","o","r","e">>
ColStatus == <<"S","t","a","t","u","s">>

\* Faulty variant: the column names are used as the file gives them.
StripColumnsNone(cols) == cols

\* df.columns.str.strip()
StripColumns(cols) == [i \in DOMAIN cols |-> Strip(cols[i], Whitespace)]

\* df.rename(columns={...}): a column with one of the five source names gets
\* its new name, any other column keeps its own
RenameColumn(c) ==
    IF c = complaint_text THEN ColPetition
    ELSE IF c = extracted_claims THEN ColClaim
    ELSE IF c = io_response THEN ColResponse
    ELSE IF c = response_score THEN ColScore
    ELSE IF c = final_status THEN ColStatus
    ELSE c

RenameColumns(cols) == [i \in DOMAIN cols |-> RenameColumn(cols[i])]

expected_cols == {ColPetition, ColClaim, ColResponse, ColScore, ColStatus}

\* expected_cols - set(df.columns)
MissingCols(cols) == expected_cols \ Range(cols)

\* A Score is a float; the model counts it in halves (3 is 1.5, -1 is -0.5).
\* int(x) cuts the fraction off, towards zero.
IntOf(h) == IF h >= 0 THEN h \div 2 ELSE -((-h) \div 2)

\* df['Score'].min() and df['Score'].max(), in halves
ScoreMin(rs) == CHOOSE h \in {rs[i].Score : i \in DOMAIN rs} :
                    \A i \in DOMAIN rs : h <= rs[i].Score
ScoreMax(rs) == CHOOSE h \in {rs[i].Score : i \in DOMAIN rs} :
                    \A i \in DOMAIN rs : rs[i].Score <= h

\* the default of each multiselect: every value of the column
StatusDefault(rs) == {rs[i].Status : i \in DOMAIN rs}
ClaimDefault(rs) == {rs[i].Claim : i \in DOMAIN rs}

\* the default of the slider: (int(min), int(max)), whole numbers
ScoreRangeDefault(rs) == <<IntOf(ScoreMin(rs)), IntOf(ScoreMax(rs))>>

\* df[isin(status_filter) & isin(claim_filter) & (Score >= lo) & (Score <= hi)]
FilterRows(rs, status_filter, claim_filter, score_range) ==
    LET Passes(row) ==
            /\ row.Status \in status_filter
            /\ row.Claim \in claim_filter
            /\ row.Score >= 2 * score_range[1]
            /\ row.Score <= 2 * score_range[2]
    IN  SelectSeq(rs, Passes)

\* the headers of the file: each of the five columns is absent, has its
\* source name, has it with a space on either side, has the new name already,
\* or has the source name with a capital first letter; an id column may follow
Capitalized(name) ==
    [name EXCEPT ![1] = UpperLetters[CHOOSE i \in DOMAIN LowerLetters : LowerLetters[i] = name[1]]]

HeaderChoices(source, target) ==
    { <<>>, <<source>>, << <<" ">> \o source \o <<" ">> >>, <<target>>, <<Capitalized(source)>> }

Headers ==
    { a \o b \o c \o d \o e \o x :
        a \in HeaderChoices(complaint_text, ColPetition),
        b \in HeaderChoices(extracted_claims, ColClaim),
        c \in HeaderChoices(io_response, ColResponse),
        d \in HeaderChoices(response_score, ColScore),
        e \in HeaderChoices(final_status, ColStatus),
        x \in { <<>>, << <<"i","d">> >> } }

SourceHeader ==
    <<complaint_text, extracted_claims, io_response, response_score, final_status>>

\* A record of the file, by the columns the page reads: the status, the claim
\* type and the score (in halves).
RowValues == [Status : Statuses, Claim : ClaimLabels, Score : (-MaxHalves)..MaxHalves]

RowLists == UNION {[1..n -> RowValues] : n \in 0..MaxRows}

SampleRows ==
    << [Status |-> <<"C","l","o","s","e","d">>,
        Claim |-> <<"L","a","n","d"," ","D","i","s","p","u","t","e">>,
        Score |-> 2] >>

\* the filters at their defaults, the filtered records and what is drawn
ShowFiltered(kept) ==
    /\ df_filtered' = kept
    /\ dsUi' = <<"title", "expander", "filters">>
                 \o (IF kept = <<>> THEN <<"warning">>
                     ELSE <<"pie", "bar", "histogram", "table">>)

\* the page from the check of the columns on
ShowDataset(missing) ==
    /\ missing_cols' = missing
    /\ IF missing # {}
       THEN \* st.error(...); st.stop()
            dsUi' = <<"title", "error">> /\ df_filtered' = <<>>
       ELSE IF rows = <<>>
       THEN \* df.empty
            dsUi' = <<"title", "expander">> /\ df_filtered' = <<>>
       ELSE ShowFiltered(FilterRows(rows, StatusDefault(rows), ClaimDefault(rows),
                                    ScoreRangeDefault(rows)))

\* the script run that shows the Dataset Case Insights page
ViewDataset ==
    /\ ~dsDone
    /\ dsDone' = TRUE
    /\ ShowDataset(MissingCols(RenameColumns(StripColumns(columns))))
    /\ UNCHANGED <<columns, rows, textVars, guidanceVars, modelVars, pageVars>>

---------------------------------------------------------------------------
(* The Dataset Case Insights page on every header with one sample record,
   and on the full header with every list of records *)

InitDataset ==
    /\ \/ columns \in Headers /\ rows = SampleRows
       \/ columns = SourceHeader /\ rows \in RowLists
    /\ dsDone = FALSE /\ dsUi = <<>> /\ missing_cols = {} /\ df_filtered = <<>>
    /\ TextIdle /\ GuidanceIdle /\ ModelsIdle /\ PageIdle

NextDataset == ViewDataset

SpecDataset == InitDataset /\ [][NextDataset]_vars

---------------------------------------------------------------------------
(* Claims about preprocess_text, under SpecText *)

\* C1: normalize (preprocess_text) is idempotent: applying it to its own
\* result gives that result again, for every input, also one that holds a
\* backslash followed by the letter s.
NormalizeIdempotent == textDone => twice = once

\* the property of a NormalizedText: lowercase ASCII letters, digits and
\* spaces only, no space at either end, no two spaces side by side
IsNormalizedText(s) ==
    /\ \A i \in DOMAIN s : s[i] \in Range(LowerLetters) \cup Digits \cup {" "}
    /\ s # <<>> => s[1] # " " /\ s[Len(s)] # " "
    /\ \A i \in 1..(Len(s) - 1) : ~(s[i] = " " /\ s[i + 1] = " ")

\* C8: the result of normalize (preprocess_text) is a NormalizedText for
\* every input: no character of the input that is not alphanumeric, such as
\* a backslash, survives, and spaces are single and inner.
NormalizeYieldsNormalizedText == textDone => IsNormalizedText(once)

---------------------------------------------------------------------------
(* Claims about get_guidance, under SpecGuidance *)

\* the same character, letter case aside
SameLetter(a, b) ==
    a = b \/ \E i \in DOMAIN UpperLetters : {a, b} = {UpperLetters[i], LowerLetters[i]}

\* the keyword occurs in the label in some mix of upper and lower case
HasKeyword(label, kw) ==
    \E i \in 0..Len(label) :
        /\ i + Len(kw) <= Len(label)
        /\ \A k \in 1..Len(kw) : SameLetter(label[i + k], kw[k])

\* the step list the precedence missing > fraud/cyber > land > domestic >
\* default gives a label
GuidanceByPrecedence(label) ==
    IF HasKeyword(label, KwMissing) THEN MissingGuidance
    ELSE IF HasKeyword(label, KwFraud) \/ HasKeyword(label, KwCyber) THEN FraudGuidance
    ELSE IF HasKeyword(label, KwLand) THEN LandGuidance
    ELSE IF HasKeyword(label, KwDomestic) THEN DomesticGuidance
    ELSE DefaultGuidance

\* C2: getGuidance is first-match-wins in the order missing > fraud/cyber >
\* land > domestic > default: a label that holds keywords of several groups,
\* in any letter case, gets the steps of the first group present.
GuidanceFirstMatchWins == guidanceDone => guidance = GuidanceByPrecedence(claimLabel)

\* a label with both "land" and "fraud" got the fraud/cyber list
LandFraudGetsFraudList ==
    /\ guidanceDone
    /\ HasKeyword(claimLabel, KwLand) /\ HasKeyword(claimLabel, KwFraud)
    /\ ~HasKeyword(claimLabel, KwMissing)
    /\ guidance = FraudGuidance /\ guidance # LandGuidance

NoKeyword(label) ==
    \A kw \in {KwMissing, KwFraud, KwCyber, KwLand, KwDomestic} : ~HasKeyword(label, kw)

\* C3: getGuidance is total and its result always splits into exactly 5
\* non-empty steps; a label with none of the keywords gets the default list.
GuidanceAlwaysFiveSteps ==
    guidanceDone =>
        /\ Len(steps) = 5
        /\ \A i \in DOMAIN steps : steps[i] # <<>>
        /\ NoKeyword(claimLabel) => guidance = DefaultGuidance

\* a non-empty label without any keyword got the five default steps
UnknownLabelGetsDefault ==
    /\ guidanceDone
    /\ claimLabel # <<>> /\ NoKeyword(claimLabel)
    /\ guidance = DefaultGuidance
    /\ Len(steps) = 5

---------------------------------------------------------------------------
(* Claims about the Analyze Case handler, under Spec *)

\* the current run is an analyze action whose inputs passed the validation
AnalyzedNow == clicked /\ Len(petition) > 0 /\ Len(response) > 0

CalledFns == {calls[i].fn : i \in DOMAIN calls}

\* C4: an analyze action with an empty petition or an empty response reports
\* the validation error and invokes none of the three predictors nor the
\* guidance resolver.
ValidationStopsPipeline ==
    (clicked /\ (Len(petition) = 0 \/ Len(response) = 0)) =>
        ui = <<"error">> /\ calls = <<>>

\* the button pressed with an empty petition and a response typed in
EmptyPetitionRejected ==
    /\ clicked /\ petition = <<>> /\ response # <<>>
    /\ ui = <<"error">> /\ calls = <<>>

\* C5: the session history is append-only and counts successes exactly: a
\* successful analyze action adds one record, made of its inputs, at the end
\* and leaves the earlier records where they were; any other step leaves the
\* history as it was.
HistoryAppendOnly ==
    [][ LET old == Cases(session_state)
            new == Cases(session_state')
        IN  IF clicked' /\ Len(petition') > 0 /\ Len(response') > 0
            THEN /\ Len(new) = Len(old) + 1
                 /\ SubSeq(new, 1, Len(old)) = old
                 /\ new[Len(new)].Petition = petition'
                 /\ new[Len(new)].Response = response'
            ELSE new = old ]_vars

\* a failing attempt after two successful ones, both records still there
TwoRecordsThenRejected ==
    /\ clicked /\ petition = <<>>
    /\ Len(Cases(session_state)) = 2
    /\ Cases(session_state)[1].Petition # Cases(session_state)[2].Petition

\* equal, letter case aside
EqualAnyCase(a, b) ==
    Len(a) = Len(b) /\ \A i \in DOMAIN a : SameLetter(a[i], b[i])

LastCase == Cases(session_state)[Len(Cases(session_state))]

\* C6: in a successful analyze action the guidance resolver is invoked
\* exactly when the predicted status, letter case aside, is not "closed".
GuidanceIffNotClosed ==
    AnalyzedNow =>
        ("get_guidance" \in CalledFns
            <=> ~EqualAnyCase(LastCase.Status, <<"c","l","o","s","e","d">>))

\* an analysis predicted "Closed" and no guidance was computed
ClosedGetsNoGuidance ==
    /\ AnalyzedNow
    /\ LastCase.Status = <<"C","l","o","s","e","d">>
    /\ "get_guidance" \notin CalledFns
    /\ ui = <<"status", "success", "dashboard">>

\* C7: in a successful analyze action the claim and the score are predicted
\* before the status, the status classifier gets exactly that claim and that
\* score, and the appended record stores these claim, score and status.
StatusAfterClaimAndScore ==
    AnalyzedNow =>
        /\ Len(calls) >= 3
        /\ calls[1].fn = "predict_claim_type" /\ calls[1].args = <<petition>>
        /\ calls[2].fn = "predict_score" /\ calls[2].args = <<response>>
        /\ calls[3].fn = "predict_status"
        /\ calls[3].args = <<petition, calls[1].result, response, calls[2].result>>
        /\ \A i \in DOMAIN calls : calls[i].fn = "predict_status" => i = 3
        /\ LastCase = [Petition |-> petition, Claim |-> calls[1].result,
                       Response |-> response, Score |-> calls[2].result,
                       Status |-> calls[3].result]

\* an analysis ran its three predictions and stored them
PredictionsStored ==
    /\ AnalyzedNow /\ Len(calls) >= 3
    /\ calls[3].args[4] = calls[2].result
    /\ LastCase.Status = calls[3].result

\* C9: the text handed to the claim classifier's vectorizer in a successful
\* analyze action is the normalized petition, normalize(petition).
ClaimClassifierGetsNormalizedText ==
    AnalyzedNow => calls[1].args = <<preprocess_text(petition)>>

---------------------------------------------------------------------------
(* Claims about the Dataset Case Insights page, under SpecDataset *)

\* the column of the file is the name with only whitespace around it
IsNameWithPadding(c, name) ==
    \E i \in 0..Len(c) :
        /\ i + Len(name) <= Len(c)
        /\ SubSeq(c, i + 1, i + Len(name)) = name
        /\ \A k \in 1..i : c[k] \in Whitespace
        /\ \A k \in (i + Len(name) + 1)..Len(c) : c[k] \in Whitespace

\* the file has a column that carries the source name or the new name
Provided(source, target) ==
    \E k \in DOMAIN columns :
        IsNameWithPadding(columns[k], source) \/ IsNameWithPadding(columns[k], target)

\* the expected columns the file does not provide
AbsentCols ==
    {pair[2] : pair \in {q \in { <<complaint_text, ColPetition>>,
                                  <<extracted_claims, ColClaim>>,
                                  <<io_response, ColResponse>>,
                                  <<response_score, ColScore>>,
                                  <<final_status, ColStatus>> } :
                            ~Provided(q[1], q[2])}}

\* C11: if after trimming and renaming any of Petition, Claim, Response,
\* Score, Status is absent, the page reports an error naming exactly the
\* absent columns and stops before any filter, chart or table; if none is
\* absent no such error is reported.
MissingColumnsReported ==
    dsDone =>
        IF AbsentCols # {}
        THEN dsUi = <<"title", "error">> /\ missing_cols = AbsentCols /\ df_filtered = <<>>
        ELSE "error" \notin Range(dsUi) /\ missing_cols = {}

\* a file with a record, a padded column name and no score column: the error
\* names Score alone and nothing else is drawn
OnlyScoreReportedMissing ==
    /\ dsDone /\ rows # <<>>
    /\ \E k \in DOMAIN columns : columns[k][1] = " "
    /\ missing_cols = {ColScore}
    /\ dsUi = <<"title", "error">>

\* C12: with the three filters at their defaults (all statuses, all claim
\* types, the slider from int(min Score) to int(max Score)) every record of a
\* non-empty dataset passes the filter, also when the least or the largest
\* Score is not a whole number or is negative.
DefaultFiltersKeepAll ==
    (dsDone /\ missing_cols = {} /\ rows # <<>>) => df_filtered = rows

=============================================================================
